---- MODULE Spec2Model ----
(***************************************************************************)
(* wavematch (chrisisler/rematch): the rule-resolution engine.             *)
(*                                                                         *)
(* The acceptance engine is src/src/match.js (allInputsSatisfyRule,        *)
(* isPatternAcceptable, ruleMatchesObjectInput, ruleMatchesArrayInput);    *)
(* the resolver is the scan of src/lib/index.js (wavematch), which calls   *)
(* the acceptance engine once per candidate rule.                          *)
(*                                                                         *)
(* Sequences are 1-based here where the JavaScript is 0-based: ruleIndex   *)
(* and inputIndex are the JavaScript index plus one.  Only comparisons     *)
(* between indices are made, so the shift changes no outcome.              *)
(*                                                                         *)
(* A JavaScript evaluation either yields a boolean or throws.  The result  *)
(* of every acceptance operator is one of                                  *)
(*    "T"  "F"  "TypeError"  "Invariant"                                   *)
(* and the combinators below propagate a throw the way the JavaScript      *)
(* control flow does (short-circuit, left to right).                       *)
(***************************************************************************)
EXTENDS Integers, Sequences, FiniteSets, TLC

VARIABLES
    rules,      \* the RuleSet of the call: a sequence of Rule
    inputs,     \* the input tuple of the call
    pc,         \* "start" | "scan" | "fallback" | "done"
    ruleIndex,  \* the scan's loop counter (1-based)
    outcome,    \* what the call ended with
    evaluated,  \* the engine's answers: {[rule |-> index, result |-> answer]}
    called      \* the rule bodies called so far, in order: [rule, args]

vars == <<rules, inputs, pc, ruleIndex, outcome, evaluated, called>>

-----------------------------------------------------------------------------
(* Values.  A number is held in tenths, so 42 is Num(420) and 4.2 is       *)
(* Num(42): 4.0 and 4 are the same JavaScript value, and so are Num(40)     *)
(* and Num(40).                                                             *)

Num(t)  == [k |-> "Number", n |-> t]
Str(s)  == [k |-> "String", s |-> s]
Bool(b) == [k |-> "Boolean", b |-> b]
Null    == [k |-> "Null"]
Undef   == [k |-> "Undefined"]
RegExpV == [k |-> "RegExp"]
FuncV   == [k |-> "Function", f |-> "fn"]
DateV   == [k |-> "Date"]
SymV    == [k |-> "Symbol"]
SetV    == [k |-> "Set"]
MapV    == [k |-> "Map"]
ErrV(name) == [k |-> "Error", name |-> name]
Arr(els)   == [k |-> "Array", els |-> els]
\* a plain object: keys in insertion order, vals the values under them
Obj(keys, vals) == [k |-> "Object", cls |-> "Object", parent |-> "",
                    keys |-> keys, vals |-> vals]
\* an instance of a class (or constructor function) named cls; parent is the
\* name after `extends` in the class source, "" when there is none
Inst(cls, parent) == [k |-> "Object", cls |-> cls, parent |-> parent,
                      keys |-> <<>>, vals |-> <<>>]

\* Patterns that are not values: a constructor of TYPES, and a guard function
Ctor(name) == [k |-> "Ctor", name |-> name]
Guard(g)   == [k |-> "Guard", g |-> g]

Min(S) == CHOOSE x \in S : \A y \in S : x <= y
Max(S) == CHOOSE x \in S : \A y \in S : x >= y

IsErr(r) == r \notin {"T", "F"}
B(b) == IF b THEN "T" ELSE "F"

\* Array.prototype.every / shared `every`: stops at the first callback that
\* does not return true; a throwing callback ends the whole call
EveryR(n, F(_)) ==
    LET bad == {i \in 1..n : F(i) # "T"}
    IN IF bad = {} THEN "T" ELSE F(Min(bad))

\* Array.prototype.some: stops at the first callback that returns true
SomeR(n, F(_)) ==
    LET hit == {i \in 1..n : F(i) # "F"}
    IN IF hit = {} THEN "F" ELSE F(Min(hit))

-----------------------------------------------------------------------------
(* Helpers of ./shared and of the libraries the engine imports.            *)

\* Object.prototype.toString.call(value), without the "[object ...]" wrapper
getType(value) == value.k

isType(constructor, value) == getType(value) = constructor

\* a finite number with a fractional part
isFloat(value) == value.k = "Number" /\ value.n % 10 # 0

\* arrays and strings have a length; functions are excluded
isArrayLike(value) == value.k \in {"Array", "String"}

\* typeof value === 'object'
typeofObject(value) == value.k \in {"Null", "Array", "Object", "RegExp", "Date", "Error", "Set", "Map"}

\* The TYPES list: the constructors a pattern can name
ERROR_TYPES == {"EvalError", "RangeError", "ReferenceError", "SyntaxError", "TypeError", "URIError", "Error"}

TYPES == {"Object", "Boolean", "Number", "Function", "Array", "String", "RegExp", "Date", "Set", "Map", "Symbol", "Proxy"} \cup ERROR_TYPES

\* position of key in an object's key list, 0 when absent
KeyPos(o, key) ==
    IF \E i \in 1..Len(o.keys) : o.keys[i] = key
    THEN CHOOSE i \in 1..Len(o.keys) : o.keys[i] = key
    ELSE 0

\* o[key]: undefined when the object has no such key
ObjGet(o, key) == IF KeyPos(o, key) = 0 THEN Undef ELSE o.vals[KeyPos(o, key)]

\* a === b for the values of the model: primitives by value, everything
\* else by reference (a pattern and an input are never the same reference,
\* a constructor or guard function is the same reference as itself)
StrictEq(a, b) ==
    /\ a.k = b.k
    /\ a.k \in {"Number", "String", "Boolean", "Null", "Undefined", "Ctor", "Guard"}
    /\ a = b

\* fast-deep-equal: === first, then arrays element by element and objects
\* key by key, whatever the order of the keys
RECURSIVE isEqual(_, _)
isEqual(a, b) ==
    IF StrictEq(a, b) THEN TRUE
    ELSE IF a.k = "Array" /\ b.k = "Array"
    THEN /\ Len(a.els) = Len(b.els)
         /\ \A i \in 1..Len(a.els) : isEqual(a.els[i], b.els[i])
    ELSE IF a.k = "Object" /\ b.k = "Object"
    THEN /\ Len(a.keys) = Len(b.keys)
         /\ \A i \in 1..Len(a.keys) :
               /\ KeyPos(b, a.keys[i]) # 0
               /\ isEqual(a.vals[i], ObjGet(b, a.keys[i]))
    ELSE FALSE

\* Object.keys(value).length: "throws" for null and undefined
keysThrows(value) == value.k \in {"Null", "Undefined"}

keysLength(value) ==
    CASE value.k = "Object" -> Len(value.keys)
      [] value.k = "Array"  -> Len(value.els)
      [] value.k = "String" -> Len(value.s)
      [] OTHER -> 0

\* input.constructor.name
constructorName(input) ==
    CASE input.k = "Object" -> input.cls
      [] input.k = "Error"  -> input.name
      [] OTHER -> input.k

\* a guard is a caller-supplied function; these are the ones of the model:
\*   lt42:  $ => $ < 42      lt7:  $ => $ < 7      five:  $ => 5
\*   isObj: $ => typeof $ === 'object'
\* ToNumber of the operand decides `<`; NaN compares false
ToNumberDefined(v) ==
    \/ v.k \in {"Number", "Null", "Boolean"}
    \/ v.k = "String" /\ v.s \in {"", "3", "42"}
    \/ v.k = "Array" /\ Len(v.els) = 0
    \/ v.k = "Array" /\ Len(v.els) = 1 /\ v.els[1].k = "Number"

ToNumber(v) ==
    CASE v.k = "Number"  -> v.n
      [] v.k = "Null"    -> 0
      [] v.k = "Boolean" -> IF v.b THEN 10 ELSE 0
      [] v.k = "String"  -> (IF v.s = "3" THEN 30 ELSE IF v.s = "42" THEN 420 ELSE 0)
      [] v.k = "Array"   -> (IF Len(v.els) = 1 THEN v.els[1].n ELSE 0)
      [] OTHER -> 0

LessThan(v, t) == ToNumberDefined(v) /\ ToNumber(v) < t

\* a Symbol operand makes `<` throw a TypeError
GuardThrows(g, input) == g \in {"lt42", "lt7"} /\ input.k = "Symbol"

GuardResult(g, input) ==
    CASE g = "lt42"  -> Bool(LessThan(input, 420))
      [] g = "lt7"   -> Bool(LessThan(input, 70))
      [] g = "isObj" -> Bool(typeofObject(input))
      [] OTHER       -> Num(50)

-----------------------------------------------------------------------------
(* ReflectedArg and Rule (src/src/flow-types.js), as reflectArguments      *)
(* builds them.  form says which optional key the argument carries:        *)
(* "pattern", "subPatterns" or neither ("none").  hasCTN says whether the   *)
(* key customTypeNames is present, ctnNull whether its value is undefined.  *)

ReflectedArg(argName, isDestructured, form, pattern, subPatterns, customTypeNames) ==
    [argName |-> argName, isDestructured |-> isDestructured, form |-> form,
     pattern |-> pattern, subPatterns |-> subPatterns,
     hasCTN |-> customTypeNames # <<>>, ctnNull |-> FALSE,
     customTypeNames |-> customTypeNames]

\* (x) => ...            no default: no optional key
ArgAny(argName) == ReflectedArg(argName, FALSE, "none", Undef, <<>>, <<>>)
\* (x = pattern) => ...
ArgPat(argName, pattern) == ReflectedArg(argName, FALSE, "pattern", pattern, <<>>, <<>>)
\* (x = a | b) => ...
ArgUnion(argName, subPatterns) == ReflectedArg(argName, FALSE, "subPatterns", Undef, subPatterns, <<>>)
\* (x = Person) => ...   eval throws a ReferenceError: the pattern stays the
\* source text and the name is recorded as a custom type
ArgCustom(argName, typeName) == ReflectedArg(argName, FALSE, "pattern", Str(typeName), <<>>, <<typeName>>)
\* ([head, ...rest]) => ...  or  ({ name }) => ...
ArgDestructured == ReflectedArg("@@DESTRUCTURED", TRUE, "none", Undef, <<>>, <<>>)

\* the argument allInputsSatisfyRule builds for one alternative of a union:
\* { pattern: subPattern, customTypeNames: undefined }
SubReflectedArg(subPattern) ==
    [argName |-> "", isDestructured |-> FALSE, form |-> "pattern",
     pattern |-> subPattern, subPatterns |-> <<>>,
     hasCTN |-> TRUE, ctnNull |-> TRUE, customTypeNames |-> <<>>]

toRule(allReflectedArgs) == [allReflectedArgs |-> allReflectedArgs, arity |-> Len(allReflectedArgs)]

ruleIsWildcard(rule) == \E i \in 1..Len(rule.allReflectedArgs) : rule.allReflectedArgs[i].argName = "_"

\* rule.allReflectedArgs[inputIndex] is undefined past the rule's arity, and
\* `'pattern' in undefined` throws a TypeError
argMissing(rule, inputIndex) == inputIndex > Len(rule.allReflectedArgs)

-----------------------------------------------------------------------------
(* The Number / String scan of isPatternAcceptable: does a non-wildcard    *)
(* rule hold, at this position, a literal of the input's type that is      *)
(* === the input?  rules.some stops at the first rule that does, so a rule *)
(* without an argument at this position throws only when no earlier rule   *)
(* already answered true.                                                  *)

literalHit(rule, inputIndex, input, typeName) ==
    /\ ~ruleIsWildcard(rule)
    /\ ~argMissing(rule, inputIndex)
    /\ rule.allReflectedArgs[inputIndex].form = "pattern"
    /\ isType(typeName, rule.allReflectedArgs[inputIndex].pattern)
    /\ StrictEq(rule.allReflectedArgs[inputIndex].pattern, input)

literalThrows(rule, inputIndex) == ~ruleIsWildcard(rule) /\ argMissing(rule, inputIndex)

otherRuleMatches(rs, inputIndex, input, typeName) ==
    SomeR(Len(rs), LAMBDA i :
        IF literalThrows(rs[i], inputIndex) THEN "TypeError"
        ELSE B(literalHit(rs[i], inputIndex, input, typeName)))

\* the variant in which declaration order alone decides: the generic pattern
\* accepts whatever literals the other rules hold (LiteralPreempts rules it out)
typeAcceptsWhateverLiterals(rs, inputIndex, input, typeName) == "T"

\* (arg = Number) / (arg = String) against a number / string input
typeAcceptsUnlessLiteral(rs, inputIndex, input, typeName) ==
    LET other == otherRuleMatches(rs, inputIndex, input, typeName)
    IN IF IsErr(other) THEN other ELSE B(other = "F")

-----------------------------------------------------------------------------
(* ruleMatchesObjectInput: the best-fit collection over all rules.         *)

\* the patterns pushIfValidSize is called with for one rule
fitCandidates(rule, inputIndex) ==
    LET r == rule.allReflectedArgs[inputIndex]
    IN IF r.form = "pattern" /\ typeofObject(r.pattern) THEN {r.pattern}
       ELSE IF r.form = "subPatterns" THEN {r.subPatterns[j] : j \in 1..Len(r.subPatterns)}
       ELSE {}

\* the reduce throws when a rule has no argument at this position, or when
\* Object.keys is handed null or undefined
bestFitThrows(rs, inputIndex) ==
    \E i \in 1..Len(rs) :
        /\ ~ruleIsWildcard(rs[i])
        /\ \/ argMissing(rs[i], inputIndex)
           \/ \E p \in fitCandidates(rs[i], inputIndex) : keysThrows(p)

\* bestFitRules, as the set of its { index, size } entries
bestFitRules(rs, inputIndex, inputSize) ==
    {[index |-> i, size |-> keysLength(p)] :
        <<i, p>> \in {<<i, p>> \in UNION {{<<j, q>> : q \in fitCandidates(rs[j], inputIndex)} :
                                   j \in {j \in 1..Len(rs) : ~ruleIsWildcard(rs[j])}} :
                        keysLength(p) <= inputSize}}

\* (arg = Object): no best-fit entry of a later rule
genericObjectAccepts(fit, ruleIdx) == ~\E b \in fit : b.index > ruleIdx

\* the rules retained after the sort and the filter: those with the most keys
retainedRules(fit) == {b \in fit : b.size >= Max({c.size : c \in fit})}

\* every(patternKeys, key => isEqual(objectPattern[key], objectInput[key]))
patternKeysEqual(objectPattern, objectInput) ==
    \A i \in 1..Len(objectPattern.keys) :
        isEqual(objectPattern.vals[i], ObjGet(objectInput, objectPattern.keys[i]))

-----------------------------------------------------------------------------
(* ruleMatchesArrayInput                                                   *)

\* the findIndex callback: a non-wildcard rule whose pattern at this
\* position is an array with no more elements than the input
isDestructuringRule(rule, inputIndex, arrayInput) ==
    /\ ~ruleIsWildcard(rule)
    /\ ~argMissing(rule, inputIndex)
    /\ rule.allReflectedArgs[inputIndex].form = "pattern"
    /\ isType("Array", rule.allReflectedArgs[inputIndex].pattern)
    /\ Len(rule.allReflectedArgs[inputIndex].pattern.els) <= Len(arrayInput.els)

\* 0 when findIndex returns -1
indexOfDestructuringRule(rs, inputIndex, arrayInput) ==
    LET found == {i \in 1..Len(rs) : isDestructuringRule(rs[i], inputIndex, arrayInput)}
    IN IF found = {} THEN 0 ELSE Min(found)

\* findIndex throws at the first rule without an argument at this position,
\* unless an earlier rule already answered true
findIndexThrows(rs, inputIndex, arrayInput) ==
    LET found == indexOfDestructuringRule(rs, inputIndex, arrayInput)
    IN \E i \in 1..Len(rs) :
        /\ ~ruleIsWildcard(rs[i])
        /\ argMissing(rs[i], inputIndex)
        /\ (found = 0 \/ i < found)

\* the variant that counts the rules other than the wildcard
\* (ArrayShapeMatching rules it out)
thisRuleIsOnlyNonWildcard(rs) == Cardinality({i \in 1..Len(rs) : ~ruleIsWildcard(rs[i])}) = 1

\* rules.length === 2: the wildcard rule is counted
thisRuleIsOnlyDestructurer(rs) == Len(rs) = 2

\* every(pattern, (value, index) => isEqual(value, arrayInput[index]))
prefixEqual(pattern, arrayInput) ==
    \A i \in 1..Len(pattern.els) : isEqual(pattern.els[i], arrayInput.els[i])

ruleMatchesArrayInput(arrayInput, inputIndex, rs, ruleIdx, pattern) ==
    IF pattern = Ctor("Array")
    THEN IF findIndexThrows(rs, inputIndex, arrayInput) THEN "TypeError"
         ELSE IF indexOfDestructuringRule(rs, inputIndex, arrayInput) # 0
         THEN B(indexOfDestructuringRule(rs, inputIndex, arrayInput) < ruleIdx)
         ELSE B(isType("Array", arrayInput))
    ELSE IF isType("Array", pattern)
    THEN IF Len(arrayInput.els) = 0 THEN B(isEqual(pattern, arrayInput))
         ELSE IF Len(pattern.els) > Len(arrayInput.els) THEN "F"
         ELSE IF Len(pattern.els) = 0 THEN "F"
         ELSE IF thisRuleIsOnlyDestructurer(rs) THEN B(prefixEqual(pattern, arrayInput))
         ELSE B(isEqual(pattern, arrayInput))
    ELSE "F"

-----------------------------------------------------------------------------
(* isPatternAcceptable and ruleMatchesObjectInput call each other: the     *)
(* key-name branch of ruleMatchesObjectInput hands every value of the      *)
(* input object back to isPatternAcceptable, with the key's position as    *)
(* inputIndex.                                                             *)

RECURSIVE isPatternAcceptable(_, _, _, _, _)
RECURSIVE ruleMatchesObjectInput(_, _, _, _, _)

\* lines 246-268: the input object has a key named like the argument
keyNameMatch(objectInput, inputIndex, rs, ruleIdx) ==
    IF argMissing(rs[ruleIdx], inputIndex) THEN "TypeError"
    ELSE LET reflectedArg == rs[ruleIdx].allReflectedArgs[inputIndex]
         IN IF KeyPos(objectInput, reflectedArg.argName) # 0
            THEN SomeR(Len(objectInput.keys), LAMBDA index :
                     isPatternAcceptable(rs, ruleIdx, index, objectInput.vals[index], reflectedArg))
            ELSE "F"

ruleMatchesObjectInput(objectInput, inputIndex, rs, ruleIdx, objectPattern) ==
    LET inputSize == Len(objectInput.keys)
        fit == bestFitRules(rs, inputIndex, inputSize)
    IN IF bestFitThrows(rs, inputIndex) THEN "TypeError"
       ELSE IF objectPattern = Ctor("Object") THEN B(genericObjectAccepts(fit, ruleIdx))
       ELSE IF isType("Object", objectPattern)
       THEN IF Len(objectPattern.keys) = 0 THEN B(isEqual(objectPattern, objectInput))
            ELSE IF Len(objectPattern.keys) <= inputSize
            THEN IF fit = {} THEN "TypeError"
                 ELSE IF \E b \in retainedRules(fit) : b.index = ruleIdx
                 THEN B(patternKeysEqual(objectPattern, objectInput))
                 ELSE keyNameMatch(objectInput, inputIndex, rs, ruleIdx)
            ELSE "F"
       ELSE keyNameMatch(objectInput, inputIndex, rs, ruleIdx)

\* the variant without the look at the parent class: only the instance's
\* own class name counts (CustomTypeOneLevel rules it out)
customTypeCheckOwnNameOnly(input, reflectedArg) ==
    IF ~reflectedArg.hasCTN THEN "next"
    ELSE IF ~reflectedArg.ctnNull /\ input.k \in {"Null", "Undefined"} THEN "TypeError"
    ELSE IF ~reflectedArg.ctnNull
            /\ \E i \in 1..Len(reflectedArg.customTypeNames) :
                   reflectedArg.customTypeNames[i] = constructorName(input)
    THEN "T"
    ELSE IF input.k \in {"Null", "Undefined"} THEN "TypeError"
    ELSE "next"

\* lines 456-474: the custom-type block; "next" when it does not return
customTypeCheck(input, reflectedArg) ==
    IF ~reflectedArg.hasCTN THEN "next"
    ELSE IF ~reflectedArg.ctnNull /\ input.k \in {"Null", "Undefined"} THEN "TypeError"
    ELSE IF ~reflectedArg.ctnNull
            /\ \E i \in 1..Len(reflectedArg.customTypeNames) :
                   reflectedArg.customTypeNames[i] = constructorName(input)
    THEN "T"
    \* tryGetParentClassName(input) reads input.constructor
    ELSE IF input.k \in {"Null", "Undefined"} THEN "TypeError"
    ELSE IF ~reflectedArg.ctnNull /\ input.k = "Object" /\ input.parent # ""
            /\ \E i \in 1..Len(reflectedArg.customTypeNames) :
                   reflectedArg.customTypeNames[i] = input.parent
    THEN "T"
    ELSE "next"

\* the variant without the `invariant`: what the guard answers is taken as
\* truthy or falsy (NonBooleanGuardFaults rules it out)
guardCheckLenient(input, pattern) ==
    IF pattern.k # "Guard" THEN "next"
    ELSE IF GuardThrows(pattern.g, input) THEN "TypeError"
    ELSE IF GuardResult(pattern.g, input) \notin {Bool(FALSE), Num(0), Str(""), Null, Undef} THEN "T"
    ELSE "next"

\* lines 478-499: a pattern that is a function outside TYPES is a guard
guardCheck(input, pattern) ==
    IF pattern.k # "Guard" THEN "next"
    ELSE IF GuardThrows(pattern.g, input) THEN "TypeError"
    ELSE IF ~isType("Boolean", GuardResult(pattern.g, input)) THEN "Invariant"
    ELSE IF GuardResult(pattern.g, input).b THEN "T"
    ELSE "next"

\* lines 601-613
errorAccepts(input, pattern) ==
    \/ pattern = Ctor("Error")
    \/ \E errorTypeName \in ERROR_TYPES :
          pattern = Ctor(errorTypeName) /\ constructorName(input) = errorTypeName

\* the variant in which a float is a Number like any other (FloatExclusion
\* rules it out)
floatAcceptsAsNumber(pattern, input) == pattern = Ctor("Number") \/ isEqual(pattern, input)

\* lines 526-528: a float is matched by deep equality and by nothing else
floatAccepts(pattern, input) == isEqual(pattern, input)

\* lines 501-646: dispatch on the type of the input
byInputType(rs, ruleIdx, inputIndex, input, pattern) ==
    IF isArrayLike(input) /\ ~isType("String", input)
    THEN ruleMatchesArrayInput(input, inputIndex, rs, ruleIdx, pattern)
    ELSE IF isType("Date", input) /\ pattern = Ctor("Date") THEN "T"
    ELSE IF isType("Object", input)
    THEN ruleMatchesObjectInput(input, inputIndex, rs, ruleIdx, pattern)
    ELSE IF isFloat(input) THEN B(floatAccepts(pattern, input))
    ELSE IF isType("Number", input)
    THEN IF pattern = Ctor("Number")
         THEN typeAcceptsUnlessLiteral(rs, inputIndex, input, "Number")
         ELSE B(StrictEq(input, pattern))
    ELSE IF isType("Function", input) /\ pattern = Ctor("Function") THEN "T"
    ELSE IF isType("Boolean", input) /\ (pattern = Ctor("Boolean") \/ StrictEq(pattern, input)) THEN "T"
    ELSE IF isType("String", input) /\ pattern = Ctor("String")
    THEN typeAcceptsUnlessLiteral(rs, inputIndex, input, "String")
    ELSE IF isType("String", input) /\ StrictEq(pattern, input) THEN "T"
    ELSE IF isType("Error", input) THEN B(errorAccepts(input, pattern))
    ELSE IF isType("Null", input) /\ StrictEq(input, pattern) THEN "T"
    ELSE IF isType("Undefined", input) /\ StrictEq(input, pattern) THEN "T"
    ELSE IF isType("RegExp", input) /\ pattern = Ctor("RegExp") THEN "T"
    ELSE "F"

isPatternAcceptable(rs, ruleIdx, inputIndex, input, reflectedArg) ==
    LET custom == customTypeCheck(input, reflectedArg)
        guard == guardCheck(input, reflectedArg.pattern)
    IN IF custom # "next" THEN custom
       ELSE IF guard # "next" THEN guard
       ELSE byInputType(rs, ruleIdx, inputIndex, input, reflectedArg.pattern)

\* one position of allInputsSatisfyRule
\* reading isDestructured off a missing argument throws a TypeError
positionSatisfied(rule, input, inputIndex, ruleIdx, rs) ==
    IF argMissing(rule, inputIndex) THEN "TypeError"
    ELSE LET reflectedArg == rule.allReflectedArgs[inputIndex]
         IN IF reflectedArg.isDestructured THEN "T"
            ELSE IF reflectedArg.form = "subPatterns"
            THEN SomeR(Len(reflectedArg.subPatterns), LAMBDA j :
                     isPatternAcceptable(rs, ruleIdx, inputIndex, input,
                                         SubReflectedArg(reflectedArg.subPatterns[j])))
            ELSE IF reflectedArg.form = "pattern"
            THEN isPatternAcceptable(rs, ruleIdx, inputIndex, input, reflectedArg)
            ELSE "T"

allInputsSatisfyRule(rule, ins, ruleIdx, rs) ==
    EveryR(Len(ins), LAMBDA inputIndex : positionSatisfied(rule, ins[inputIndex], inputIndex, ruleIdx, rs))

-----------------------------------------------------------------------------
(* wavematch(...values)(...patterns): the resolver of src/lib/index.js.    *)

\* rules.findIndex(rule => rule.allReflectedArgs.some(arg => arg.argName === '_')),
\* 0 when findIndex returns -1
indexOfWildcardRule(rs) ==
    LET found == {i \in 1..Len(rs) : ruleIsWildcard(rs[i])}
    IN IF found = {} THEN 0 ELSE Min(found)

wildcardExists(rs) == indexOfWildcardRule(rs) > 0

Pending == [kind |-> "pending", rule |-> 0, args |-> <<>>, fault |-> ""]
\* rules[rule].expression(...args) was called and its result returned
BodyRan(rule, args) == [kind |-> "body", rule |-> rule, args |-> args, fault |-> ""]
\* the call returned undefined without calling any rule
NoMatch == [kind |-> "nomatch", rule |-> 0, args |-> <<>>, fault |-> ""]
\* the call threw
Fault(rule, fault) == [kind |-> "fault", rule |-> rule, args |-> <<>>, fault |-> fault]

\* the loop test `ruleIndex < rules.length` holds
InLoop == pc = "scan" /\ ruleIndex <= Len(rules)

\* the variant without the arity test (ArityFiltering rules it out)
isCandidateOfAnyArity(rs, ins, i) == i # indexOfWildcardRule(rs)

\* the rule the loop is at is one the engine is asked about
isCandidate(rs, ins, i) == i # indexOfWildcardRule(rs) /\ rs[i].arity = Len(ins)

\* the checks before the loop (lines 22-100).  Only the check of an empty
\* rule list is an `invariant`, which throws; every other check (no input,
\* a wildcard rule that is not last, is not unary or has a default, no
\* wildcard rule at all) is a `warning`, after which the call goes on: the
\* code that follows a `warning(true, ...)` is a `return false` or a
\* `return []`
Start ==
    /\ pc = "start"
    /\ IF Len(rules) = 0
       THEN /\ outcome' = Fault(0, "Invariant")
            /\ pc' = "done"
            /\ UNCHANGED ruleIndex
       ELSE /\ pc' = "scan"
            /\ ruleIndex' = 1
            /\ UNCHANGED outcome
    /\ UNCHANGED <<rules, inputs, evaluated, called>>

\* the wildcard rule and the rules of another arity are passed over
SkipRule ==
    /\ InLoop
    /\ ~isCandidate(rules, inputs, ruleIndex)
    /\ ruleIndex' = ruleIndex + 1
    /\ UNCHANGED <<rules, inputs, pc, outcome, evaluated, called>>

\* the variant that calls the body and goes on scanning instead of returning
\* (FirstMatchWins rules it out)
TryRuleWithoutReturn ==
    /\ InLoop
    /\ isCandidate(rules, inputs, ruleIndex)
    /\ LET matched == allInputsSatisfyRule(rules[ruleIndex], inputs, ruleIndex, rules)
       IN /\ evaluated' = evaluated \cup {[rule |-> ruleIndex, result |-> matched]}
          /\ IF matched = "T"
             THEN /\ called' = Append(called, [rule |-> ruleIndex, args |-> inputs])
                  /\ outcome' = BodyRan(ruleIndex, inputs)
                  /\ ruleIndex' = ruleIndex + 1
                  /\ UNCHANGED pc
             ELSE IF matched = "F"
             THEN /\ ruleIndex' = ruleIndex + 1
                  /\ UNCHANGED <<pc, outcome, called>>
             ELSE /\ outcome' = Fault(ruleIndex, matched)
                  /\ pc' = "done"
                  /\ UNCHANGED <<ruleIndex, called>>
    /\ UNCHANGED <<rules, inputs>>

\* the variant that forgets a rule once it rejected the inputs, so that the
\* RuleSet is not the same after the call (StatelessResolution rules it out)
TryRuleDroppingRejected ==
    /\ InLoop
    /\ isCandidate(rules, inputs, ruleIndex)
    /\ LET matched == allInputsSatisfyRule(rules[ruleIndex], inputs, ruleIndex, rules)
       IN /\ evaluated' = evaluated \cup {[rule |-> ruleIndex, result |-> matched]}
          /\ IF matched = "T"
             THEN /\ called' = Append(called, [rule |-> ruleIndex, args |-> inputs])
                  /\ outcome' = BodyRan(ruleIndex, inputs)
                  /\ pc' = "done"
                  /\ UNCHANGED <<ruleIndex, rules>>
             ELSE IF matched = "F"
             THEN /\ rules' = SubSeq(rules, 1, ruleIndex - 1) \o SubSeq(rules, ruleIndex + 1, Len(rules))
                  /\ UNCHANGED <<ruleIndex, pc, outcome, called>>
             ELSE /\ outcome' = Fault(ruleIndex, matched)
                  /\ pc' = "done"
                  /\ UNCHANGED <<ruleIndex, called, rules>>
    /\ UNCHANGED inputs

\* doesMatch(rules[ruleIndex], values, ruleIndex, rules), then the return
TryRule ==
    /\ InLoop
    /\ isCandidate(rules, inputs, ruleIndex)
    /\ LET matched == allInputsSatisfyRule(rules[ruleIndex], inputs, ruleIndex, rules)
       IN /\ evaluated' = evaluated \cup {[rule |-> ruleIndex, result |-> matched]}
          /\ IF matched = "T"
             THEN /\ called' = Append(called, [rule |-> ruleIndex, args |-> inputs])
                  /\ outcome' = BodyRan(ruleIndex, inputs)
                  /\ pc' = "done"
                  /\ UNCHANGED ruleIndex
             ELSE IF matched = "F"
             THEN /\ ruleIndex' = ruleIndex + 1
                  /\ UNCHANGED <<pc, outcome, called>>
             ELSE /\ outcome' = Fault(ruleIndex, matched)
                  /\ pc' = "done"
                  /\ UNCHANGED <<ruleIndex, called>>
    /\ UNCHANGED <<rules, inputs>>

\* the variant that hands the inputs to the wildcard rule's expression
\* (WildcardGetsNoArguments rules it out)
FallbackWithInputs ==
    /\ pc = "scan"
    /\ ruleIndex > Len(rules)
    /\ IF wildcardExists(rules)
       THEN /\ called' = Append(called, [rule |-> indexOfWildcardRule(rules), args |-> inputs])
            /\ outcome' = BodyRan(indexOfWildcardRule(rules), inputs)
       ELSE /\ outcome' = NoMatch
            /\ UNCHANGED called
    /\ pc' = "done"
    /\ UNCHANGED <<rules, inputs, ruleIndex, evaluated>>

\* after the loop: the wildcard rule's expression is called with no argument
Fallback ==
    /\ pc = "scan"
    /\ ruleIndex > Len(rules)
    /\ IF wildcardExists(rules)
       THEN /\ called' = Append(called, [rule |-> indexOfWildcardRule(rules), args |-> <<>>])
            /\ outcome' = BodyRan(indexOfWildcardRule(rules), <<>>)
       ELSE /\ outcome' = NoMatch
            /\ UNCHANGED called
    /\ pc' = "done"
    /\ UNCHANGED <<rules, inputs, ruleIndex, evaluated>>

Next == Start \/ SkipRule \/ TryRule \/ Fallback

-----------------------------------------------------------------------------
(* The calls of the model: every RuleSet of at most MaxRules rules drawn   *)
(* from a set of rules, with or without the wildcard rule `_ => ...` as    *)
(* its last rule, against every input tuple of a set.                      *)

MaxRules == 2

WildcardRule == toRule(<<ArgAny("_")>>)

Unary(arg) == toRule(<<arg>>)

RuleSets(universe) ==
    UNION {{rs : rs \in [1..n -> universe]} \cup {Append(rs, WildcardRule) : rs \in [1..n -> universe]} :
              n \in 1..MaxRules}

InitWith(universe, tuples) ==
    /\ rules \in RuleSets(universe)
    /\ inputs \in tuples
    /\ pc = "start"
    /\ ruleIndex = 0
    /\ outcome = Pending
    /\ evaluated = {}
    /\ called = <<>>

\* numbers, strings, guards and rules of two arities
PrimitiveArgs ==
    {ArgAny("x"), ArgPat("x", Num(30)), ArgPat("x", Num(420)), ArgPat("x", Num(42)),
     ArgPat("x", Ctor("Number")), ArgPat("x", Str("foo")), ArgPat("x", Ctor("String")),
     ArgPat("x", Guard("lt42")), ArgPat("x", Guard("lt7")), ArgPat("x", Guard("five")),
     ArgPat("x", Null), ArgUnion("x", <<Num(30), Str("foo")>>),
     ArgUnion("x", <<Num(30), Guard("five")>>)}

PrimitiveRules ==
    {Unary(a) : a \in PrimitiveArgs}
      \cup {toRule(<<ArgPat("x", Ctor("Number")), ArgPat("y", Num(30))>>),
            toRule(<<ArgPat("x", Num(420)), ArgAny("y")>>)}

PrimitiveInputs ==
    {<<v>> : v \in {Num(30), Num(420), Num(42), Num(40), Str("foo"), Str("bar"), Null, Undef,
                    Num(43), Bool(TRUE), Obj(<<"a">>, <<Num(10)>>)}}
      \cup {<<Num(420), Num(30)>>, <<Num(30), Num(30)>>}

Init == InitWith(PrimitiveRules, PrimitiveInputs)

Spec == Init /\ [][Next]_vars

-----------------------------------------------------------------------------
(* Properties of the resolver and of numbers and strings, checked under    *)
(* Spec.                                                                   *)

\* the rules the scan asks the engine about and that the engine accepts
accepting == {i \in 1..Len(rules) :
                 /\ isCandidate(rules, inputs, i)
                 /\ allInputsSatisfyRule(rules[i], inputs, i, rules) = "T"}

lastRuleIsWildcard == Len(rules) >= 1 /\ ruleIsWildcard(rules[Len(rules)])

\* C1: first match wins.  At most one body is ever called; a non-wildcard
\* body that is called is the body of the lowest-index accepting rule and is
\* applied to the inputs; and a call that ends without a fault while some
\* rule accepts has called exactly that body, never a later rule's nor the
\* wildcard's.
FirstMatchWins ==
    /\ Len(called) <= 1
    /\ \A n \in 1..Len(called) :
          called[n].rule # indexOfWildcardRule(rules)
              => accepting # {} /\ called[n] = [rule |-> Min(accepting), args |-> inputs]
    /\ (pc = "done" /\ accepting # {} /\ outcome.kind # "fault")
          => called = <<[rule |-> Min(accepting), args |-> inputs]>>

\* [x < 42 -> A, x < 7 -> B, _ -> C] with input 3 has called A
FirstMatchWins_witness ==
    /\ pc = "done"
    /\ rules = <<Unary(ArgPat("x", Guard("lt42"))), Unary(ArgPat("x", Guard("lt7"))), WildcardRule>>
    /\ inputs = <<Num(30)>>
    /\ called = <<[rule |-> 1, args |-> inputs]>>

\* C2: a call with at least one input whose last rule is the wildcard ends
\* with exactly one body called.  The one fault the engine raises on purpose,
\* a guard that answers with a non-boolean, is set aside here.
TrailingWildcardRunsABody ==
    (pc = "done" /\ lastRuleIsWildcard /\ Len(inputs) >= 1 /\ outcome.fault # "Invariant")
        => Len(called) = 1

genericAt(rule, p, v) ==
    /\ p <= rule.arity
    /\ rule.allReflectedArgs[p].form = "pattern"
    /\ \/ rule.allReflectedArgs[p].pattern = Ctor("Number") /\ v.k = "Number" /\ ~isFloat(v)
       \/ rule.allReflectedArgs[p].pattern = Ctor("String") /\ v.k = "String"

\* (arg = v) for the number or string v
literalAt(rule, p, v) ==
    /\ ~ruleIsWildcard(rule)
    /\ p <= rule.arity
    /\ rule.allReflectedArgs[p].form = "pattern"
    /\ v.k \in {"Number", "String"}
    /\ rule.allReflectedArgs[p].pattern = v

\* rule i is the literal rule of a pair and constrains no other position
literalRuleOfPair(i, j, p) ==
    /\ Len(rules) - (IF lastRuleIsWildcard THEN 1 ELSE 0) = 2
    /\ i # j
    /\ literalAt(rules[i], p, inputs[p])
    /\ genericAt(rules[j], p, inputs[p])
    /\ rules[i].arity = Len(inputs)
    /\ \A q \in 1..Len(inputs) : q # p => rules[i].allReflectedArgs[q].form = "none"

NoMatchIsDefined ==
    (pc = "done" /\ ~wildcardExists(rules) /\ accepting = {} /\ outcome.fault # "Invariant")
        => outcome = NoMatch /\ called = <<>>

\* the guard of a unary rule was called with the input and answered with a
\* value that is not a boolean
guardAnsweredNonBoolean(arg, input) ==
    /\ arg.form = "pattern"
    /\ arg.pattern.k = "Guard"
    /\ ~GuardThrows(arg.pattern.g, input)
    /\ ~isType("Boolean", GuardResult(arg.pattern.g, input))

\* C13: a guard that answers with a non-boolean is a fault.  When the guard
\* of the rule the engine is asked about answers with a non-boolean, the
\* answer of the engine is the fault, neither accepted nor rejected; the
\* call ends there with that fault and no body called.  The same holds
\* for the guard of the union 3 | ($ => 5) whenever the input is a number
\* other than 3, so that the guard is reached.
NonBooleanGuardFaults ==
    \A e \in evaluated :
        LET arg == rules[e.rule].allReflectedArgs[1]
        IN (\/ guardAnsweredNonBoolean(arg, inputs[1])
            \/ /\ arg = ArgUnion("x", <<Num(30), Guard("five")>>)
               /\ inputs[1].k = "Number"
               /\ inputs[1] # Num(30))
              => /\ e.result = "Invariant"
                 /\ pc = "done"
                 /\ outcome = Fault(e.rule, "Invariant")
                 /\ called = <<>>

\* [x < 7 -> A, ($ => 5) -> B, _ -> C] with input 42: the first guard
\* rejected, the second answered 5, and the call ended with the fault
NonBooleanGuardFaults_witness ==
    /\ pc = "done"
    /\ rules = <<Unary(ArgPat("x", Guard("lt7"))), Unary(ArgPat("x", Guard("five"))), WildcardRule>>
    /\ inputs = <<Num(420)>>
    /\ evaluated = {[rule |-> 1, result |-> "F"], [rule |-> 2, result |-> "Invariant"]}
    /\ outcome = Fault(2, "Invariant")
    /\ called = <<>>

-----------------------------------------------------------------------------
(* Objects, arrays and unions: unary calls whose rules hold object and     *)
(* array shapes, the Object and Array constructors and unions.             *)

ShapeArgs ==
    {ArgAny("o"),
     ArgPat("o", Obj(<<"x">>, <<Num(10)>>)),
     ArgPat("o", Obj(<<"x", "y">>, <<Num(10), Num(20)>>)),
     ArgPat("o", Obj(<<>>, <<>>)),
     ArgPat("o", Ctor("Object")),
     ArgPat("xs", Arr(<<>>)),
     ArgPat("o", Arr(<<Num(10)>>)),
     ArgPat("o", Arr(<<Num(10), Num(30)>>)),
     ArgPat("o", Ctor("Array")),
     ArgPat("o", Null),
     ArgUnion("o", <<Ctor("RegExp"), Ctor("Array")>>),
     ArgUnion("o", <<Num(0), Num(10)>>),
     ArgUnion("o", <<Str("ab"), Str("cd")>>),
     ArgUnion("o", <<Obj(<<"x">>, <<Num(10)>>), Obj(<<"a", "b", "c">>, <<Num(10), Num(20), Num(30)>>)>>)}

ShapeRules == {Unary(a) : a \in ShapeArgs}

ShapeInputs ==
    {<<v>> : v \in {Obj(<<>>, <<>>),
                    Obj(<<"x">>, <<Num(10)>>),
                    Obj(<<"x">>, <<Num(20)>>),
                    Obj(<<"x", "y">>, <<Num(10), Num(20)>>),
                    Obj(<<"x", "y", "z">>, <<Num(10), Num(20), Num(30)>>),
                    Obj(<<"xs", "ys">>, <<Num(10), Arr(<<>>)>>),
                    Arr(<<>>), Arr(<<Num(10)>>), Arr(<<Num(20)>>),
                    Arr(<<Num(10), Num(20)>>), Arr(<<Num(10), Num(30)>>),
                    RegExpV, Null, Num(10), Str("ab")}}

ShapeInit == InitWith(ShapeRules, ShapeInputs)

ShapeSpec == ShapeInit /\ [][Next]_vars

-----------------------------------------------------------------------------
(* Properties of shapes and unions, checked under ShapeSpec.  All calls    *)
(* are unary: the pattern of a rule is its pattern at position 1.          *)

theArg(i) == rules[i].allReflectedArgs[1]

theInput == inputs[1]

isShape(pattern) == pattern.k \in {"Object", "Array"}

\* the sizes of the shape patterns a rule holds, alone or as alternatives
\* of a union
shapeSizes(rule) ==
    LET arg == rule.allReflectedArgs[1]
    IN IF ruleIsWildcard(rule) THEN {}
       ELSE IF arg.form = "pattern" /\ isShape(arg.pattern) THEN {keysLength(arg.pattern)}
       ELSE IF arg.form = "subPatterns"
       THEN {keysLength(arg.subPatterns[a]) : a \in {a \in 1..Len(arg.subPatterns) : isShape(arg.subPatterns[a])}}
       ELSE {}

\* every declared key is a key of the input, with the same value
declaredKeysEqual(pattern, input) ==
    \A i \in 1..Len(pattern.keys) :
        \E j \in 1..Len(input.keys) :
            input.keys[j] = pattern.keys[i] /\ input.vals[j] = pattern.vals[i]

\* C6: object best fit.  A rule whose pattern is an object shape with
\* n >= 1 keys answers a mapping of K keys with: accepted when n <= K, no
\* shape pattern of any non-wildcard rule has more than n and at most K
\* keys, and every declared key holds the declared value; rejected
\* otherwise.  (Evaluations that end in a throw are set aside.)
ObjectBestFit ==
    \A e \in evaluated :
        (/\ ~IsErr(e.result)
         /\ theArg(e.rule).form = "pattern"
         /\ theArg(e.rule).pattern.k = "Object"
         /\ Len(theArg(e.rule).pattern.keys) >= 1
         /\ theInput.k = "Object")
            => e.result = B(/\ Len(theArg(e.rule).pattern.keys) <= Len(theInput.keys)
                            /\ \A j \in 1..Len(rules) : \A size \in shapeSizes(rules[j]) :
                                  size <= Len(theInput.keys) => size <= Len(theArg(e.rule).pattern.keys)
                            /\ declaredKeysEqual(theArg(e.rule).pattern, theInput))

\* C7: the generic Object pattern defers to shape rules.  A rule at index i
\* whose pattern is the Object constructor answers a mapping of K keys
\* with: accepted when no non-wildcard rule after i holds a shape pattern
\* of at most K keys; rejected otherwise.  (Evaluations that end in a throw
\* are set aside.)
GenericObjectDefers ==
    \A e \in evaluated :
        (/\ ~IsErr(e.result)
         /\ theArg(e.rule).form = "pattern"
         /\ theArg(e.rule).pattern = Ctor("Object")
         /\ theInput.k = "Object")
            => e.result = B(~\E j \in 1..Len(rules) :
                               /\ j > e.rule
                               /\ \E size \in shapeSizes(rules[j]) : size <= Len(theInput.keys))


isArrayShapeRule(i) ==
    /\ theArg(i).form = "pattern"
    /\ theArg(i).pattern.k = "Array"
    /\ Len(theArg(i).pattern.els) >= 1

\* the first n elements of the input are the n elements of the pattern
isPrefix(pattern, input) ==
    /\ Len(pattern.els) <= Len(input.els)
    /\ SubSeq(input.els, 1, Len(pattern.els)) = pattern.els

nonWildcardRules == {i \in 1..Len(rules) : ~ruleIsWildcard(rules[i])}

EmptyShapeExact ==
    \A e \in evaluated :
        /\ (theArg(e.rule).form = "pattern" /\ theArg(e.rule).pattern = Obj(<<>>, <<>>))
              => e.result = B(theInput.k = "Object" /\ Len(theInput.keys) = 0)
        /\ (theArg(e.rule).form = "pattern" /\ theArg(e.rule).pattern = Arr(<<>>))
              => e.result = B(theInput.k = "Array" /\ Len(theInput.els) = 0)

\* alternative a of rule i's union, evaluated as the pattern of rule i in
\* the same RuleSet
alternativeAccepts(i, a) ==
    isPatternAcceptable(rules, i, 1, theInput, ArgPat(theArg(i).argName, theArg(i).subPatterns[a]))

\* C10: a union is the OR of its alternatives.  A rule whose pattern is a
\* union answers T when some alternative, evaluated as the pattern of that
\* rule in the same RuleSet, accepts the input, and F when none does (the
\* calls in which an alternative so evaluated throws are set aside); and
\* RegExp | Array, when no other rule but the wildcard is there, answers T
\* for a regular expression and for a sequence and F for every other input.
UnionIsOr ==
    \A e \in evaluated :
        /\ (/\ theArg(e.rule).form = "subPatterns"
            /\ \A a \in 1..Len(theArg(e.rule).subPatterns) : ~IsErr(alternativeAccepts(e.rule, a)))
              => e.result = B(\E a \in 1..Len(theArg(e.rule).subPatterns) :
                                 alternativeAccepts(e.rule, a) = "T")
        /\ (/\ theArg(e.rule) = ArgUnion("o", <<Ctor("RegExp"), Ctor("Array")>>)
            /\ nonWildcardRules = {e.rule})
              => e.result = B(theInput.k \in {"RegExp", "Array"})

-----------------------------------------------------------------------------
(* Constructors and custom types: unary calls whose rules name the         *)
(* constructors of the closed set or a class, against inputs of every      *)
(* kind, among them the instances of class A {}, class B extends A {} and  *)
(* class C extends B {}.                                                   *)

ClosedSet == {"String", "Number", "Boolean", "Function", "Array", "Object",
              "RegExp", "Date", "Error", "Set", "Map", "Symbol"}

KindArgs ==
    {ArgAny("v"), ArgPat("v", Null), ArgCustom("v", "A"), ArgCustom("v", "B"),
     ArgUnion("v", <<Ctor("Boolean"), Ctor("Array")>>)}
      \cup {ArgPat("v", Ctor(name)) : name \in ClosedSet}

KindRules == {Unary(a) : a \in KindArgs}

KindInputs ==
    {<<v>> : v \in {Str("foo"), Num(420), Num(42), Bool(TRUE), FuncV, Arr(<<Num(10)>>),
                    Obj(<<"a">>, <<Num(10)>>), RegExpV, DateV, ErrV("Error"), ErrV("TypeError"),
                    SetV, MapV, SymV, Null, Undef,
                    Inst("A", ""), Inst("B", "A"), Inst("C", "B")}}

KindInit == InitWith(KindRules, KindInputs)

KindSpec == KindInit /\ [][Next]_vars

-----------------------------------------------------------------------------
(* Properties of constructors and custom types, checked under KindSpec.    *)

\* an instance of a class, as opposed to a plain object
isInstance(value) == value.k = "Object" /\ value.cls # "Object"

\* the custom type names a rule's pattern holds
customNames(arg) == {arg.customTypeNames[i] : i \in 1..Len(arg.customTypeNames)}

\* C14: a custom type looks one level up and no further.  A rule whose
\* pattern is the custom type `name` answers an instance of a class with:
\* accepted when the instance's own class is `name` or the class it
\* extends is `name`; never accepted otherwise, so not for an instance whose
\* grandparent class is `name`; whatever the other rules are.
CustomTypeOneLevel ==
    \A e \in evaluated :
        (theArg(e.rule).form = "pattern" /\ theArg(e.rule).hasCTN /\ isInstance(theInput))
            => IF theInput.cls \in customNames(theArg(e.rule)) \/ theInput.parent \in customNames(theArg(e.rule))
               THEN e.result = "T"
               ELSE e.result # "T"

\* [A -> accept] with an instance of class B extends A: accepted through
\* the parent class
CustomTypeOneLevel_witness ==
    /\ pc = "done"
    /\ rules = <<Unary(ArgCustom("v", "A")), WildcardRule>>
    /\ inputs = <<Inst("B", "A")>>
    /\ evaluated = {[rule |-> 1, result |-> "T"]}
    /\ called = <<[rule |-> 1, args |-> inputs]>>

\* [A -> accept, _ -> reject] with an instance of class C extends B, B
\* extending A: rejected, the wildcard rule was called
CustomTypeGrandparent_reached ==
    /\ pc = "done"
    /\ rules = <<Unary(ArgCustom("v", "A")), WildcardRule>>
    /\ inputs = <<Inst("C", "B")>>
    /\ evaluated = {[rule |-> 1, result |-> "F"]}
    /\ called = <<[rule |-> 2, args |-> <<>>]>>

\* C16: canonical-kind match.  A rule whose pattern is a constructor of the
\* closed set, in a RuleSet with no other rule but the wildcard (so that
\* no literal and no shape of another rule interferes), answers an input
\* that is neither a float nor an instance of a class with: accepted when
\* the kind of the input is the kind the constructor names, rejected
\* otherwise.
CanonicalKindMatch ==
    \A e \in evaluated :
        (/\ theArg(e.rule).form = "pattern"
         /\ theArg(e.rule).pattern.k = "Ctor"
         /\ theArg(e.rule).pattern.name \in ClosedSet
         /\ nonWildcardRules = {e.rule}
         /\ ~isFloat(theInput)
         /\ ~isInstance(theInput))
            => e.result = B(getType(theInput) = theArg(e.rule).pattern.name)

-----------------------------------------------------------------------------
(* src/src/index.ts: the TypeScript resolver.  A branch is described by    *)
(* the same Rule record: an argument without a default is an Identifier    *)
(* parameter, an argument with a pattern an AssignmentPattern whose right  *)
(* side is the pattern's node, a destructured argument an ObjectPattern or *)
(* ArrayPattern.  Every throw of this resolver is an Error: the result of  *)
(* isMatch is "T", "F" or "Error".                                         *)

\* the node `!argument`
Not(argument) == [k |-> "Not", arg |-> argument]

\* the numbers -0 and NaN, which identity tells from 0 and from itself
NegZero == [k |-> "Number", n |-> 0, neg |-> TRUE]
NaNV    == [k |-> "Number", nan |-> TRUE]

IsNaN(value) == value.k = "Number" /\ "nan" \in DOMAIN value

IsZero(value) == value.k = "Number" /\ ~IsNaN(value) /\ value.n = 0

primitiveConstructors ==
    {"String", "Function", "Number", "Boolean", "Symbol", "BigInt", "Object", "Array", "RegExp", "Error"}

isPrimitiveConstructor(str) == str \in primitiveConstructors

\* the Pattern records; Unhandled stands for `throw Error('Unhandled node state')`
PatternRecord(type, value, negated) == [type |-> type, value |-> value, negated |-> negated]

Pattern_any == PatternRecord("Any", Undef, FALSE)

Unhandled == PatternRecord("Unhandled", Undef, FALSE)

\* Pattern.from: string, numeric and boolean literals, signed numbers,
\* null, undefined, the built-in constructors, arrow functions and object
\* expressions; NaN, Infinity, array expressions and every other node
\* reach the final throw
Pattern_from(node, isNegated) ==
    IF node.k \in {"String", "Boolean", "Null", "Undefined"} THEN PatternRecord("Literal", node, isNegated)
    ELSE IF node.k = "Number" /\ ~IsNaN(node) THEN PatternRecord("Literal", node, isNegated)
    ELSE IF node.k = "Ctor" /\ isPrimitiveConstructor(node.name) THEN PatternRecord("Typed", node, isNegated)
    ELSE IF node.k = "Guard" THEN PatternRecord("Guard", Ctor("Boolean"), FALSE)
    ELSE IF node.k = "Object" THEN PatternRecord("Collection", Obj(<<"id">>, <<Num(420)>>), FALSE)
    ELSE Unhandled

Pattern_fromUnary(node) ==
    IF node.k = "Not" THEN Pattern_from(node.arg, TRUE) ELSE Pattern_from(node, FALSE)

\* Pattern.fromUnion: the right operand first, then the left ones, so the
\* alternatives come out in the reverse of the order they are written in
Pattern_fromUnion(subPatterns) ==
    [j \in 1..Len(subPatterns) |-> Pattern_fromUnary(subPatterns[Len(subPatterns) + 1 - j])]

Pattern_new(reflectedArg) ==
    IF reflectedArg.form = "subPatterns" THEN Pattern_fromUnion(reflectedArg.subPatterns)
    ELSE <<Pattern_fromUnary(reflectedArg.pattern)>>

\* the variant that compares with ===, for which -0 is 0 and NaN is not
\* NaN (LiteralIsIdentity rules it out)
ObjectIsAsStrictEquals(a, b) ==
    /\ a.k = b.k
    /\ a.k \in {"Number", "String", "Boolean", "Null", "Undefined"}
    /\ ~IsNaN(a)
    /\ a = b \/ (IsZero(a) /\ IsZero(b))

\* Object.is(pattern.value, input): the value of a Literal is a primitive
ObjectIs(a, b) ==
    /\ a.k = b.k
    /\ a.k \in {"Number", "String", "Boolean", "Null", "Undefined"}
    /\ a = b

\* lines 347-370: the patterns of one parameter
patternsOf(param) == IF param.form = "none" THEN <<Pattern_any>> ELSE Pattern_new(param)

\* the map over the parameters throws: a destructured parameter, or a
\* default that Pattern.from cannot handle
patternsThrow(params) ==
    \E i \in 1..Len(params) :
        \/ params[i].isDestructured
        \/ \E j \in 1..Len(patternsOf(params[i])) : patternsOf(params[i])[j].type = "Unhandled"

\* lines 372-393: the callback of `some`.  A Typed pattern does not read
\* `negated`
patternMatches(pattern, input) ==
    CASE pattern.type = "Literal" -> B(ObjectIs(pattern.value, input) # pattern.negated)
      [] pattern.type = "Typed"   -> B(getType(input) = pattern.value.name)
      [] pattern.type = "Any"     -> "T"
      [] OTHER                    -> "Error"

\* the parameter is the identifier `_`
isUnderscore(param) == param.form = "none" /\ ~param.isDestructured /\ param.argName = "_"

isMatch(args, branches, branchIndex) ==
    LET params == branches[branchIndex].allReflectedArgs
        branchArity == Len(params)
        isLastBranch == Len(branches) = branchIndex
    IN IF isLastBranch
       THEN IF branchArity > 1 THEN "Error"
            ELSE IF branchArity = 1 THEN (IF isUnderscore(params[1]) THEN "T" ELSE "Error")
            ELSE "T"
       ELSE IF branchArity = 0 THEN "Error"
       ELSE IF Len(args) # branchArity THEN "F"
       ELSE IF patternsThrow(params) THEN "Error"
       ELSE EveryR(Len(args), LAMBDA position :
                SomeR(Len(patternsOf(params[position])), LAMBDA j :
                    patternMatches(patternsOf(params[position])[j], args[position])))

\* the variant without the two checks (EmptyCallRejected rules it out)
TsStartUnchecked ==
    /\ pc = "start"
    /\ pc' = "scan"
    /\ ruleIndex' = 1
    /\ UNCHANGED <<rules, inputs, outcome, evaluated, called>>

\* lines 413-414
TsStart ==
    /\ pc = "start"
    /\ IF Len(inputs) = 0 \/ Len(rules) = 0
       THEN /\ outcome' = Fault(0, "Error")
            /\ pc' = "done"
            /\ UNCHANGED ruleIndex
       ELSE /\ pc' = "scan"
            /\ ruleIndex' = 1
            /\ UNCHANGED outcome
    /\ UNCHANGED <<rules, inputs, evaluated, called>>

\* lines 415-423: one turn of the loop
TsTryBranch ==
    /\ InLoop
    /\ LET matched == isMatch(inputs, rules, ruleIndex)
       IN /\ evaluated' = evaluated \cup {[rule |-> ruleIndex, result |-> matched]}
          /\ IF matched = "T"
             THEN /\ called' = Append(called, [rule |-> ruleIndex, args |-> inputs])
                  /\ outcome' = BodyRan(ruleIndex, inputs)
                  /\ pc' = "done"
                  /\ UNCHANGED ruleIndex
             ELSE IF matched = "F"
             THEN /\ ruleIndex' = ruleIndex + 1
                  /\ UNCHANGED <<pc, outcome, called>>
             ELSE /\ outcome' = Fault(ruleIndex, matched)
                  /\ pc' = "done"
                  /\ UNCHANGED <<ruleIndex, called>>
    /\ UNCHANGED <<rules, inputs>>

\* Line 425, `branches[branches.length - 1].call(null)`, is not an action:
\* for the last branch isMatch answers true or throws, so the loop never
\* ends without a return (TsLoopAlwaysReturns).
TsNext == TsStart \/ TsTryBranch

TsArgs ==
    {ArgAny("x"),
     ArgPat("x", Num(0)), ArgPat("x", NegZero), ArgPat("x", Num(420)), ArgPat("x", NaNV),
     ArgPat("x", Str("42")), ArgPat("x", Str("")), ArgPat("x", Null), ArgPat("x", Undef),
     ArgPat("x", Not(Num(420))), ArgPat("x", Not(Null)),
     ArgPat("x", Ctor("Number")), ArgPat("x", Not(Ctor("Number"))),
     ArgPat("x", Ctor("String")), ArgPat("x", Not(Ctor("String"))),
     ArgUnion("x", <<Ctor("Boolean"), Ctor("Array")>>),
     ArgPat("x", Guard("lt42"))}

\* unary branches, `_ => ...`, `(_ = null) => ...`, `() => ...` and two
\* binary branches
TsRules ==
    {Unary(a) : a \in TsArgs}
      \cup {WildcardRule, Unary(ArgPat("_", Null)), toRule(<<>>),
            toRule(<<ArgPat("x", Num(420)), ArgAny("y")>>),
            toRule(<<ArgAny("_"), ArgAny("y")>>)}

\* every branch list of at most MaxRules branches, the empty one included,
\* with or without `_ => ...` after it
TsRuleSets ==
    UNION {{rs : rs \in [1..n -> TsRules]} \cup {Append(rs, WildcardRule) : rs \in [1..n -> TsRules]} :
              n \in 0..MaxRules}

TsInputs ==
    {<<>>, <<Num(420), Num(0)>>}
      \cup {<<v>> : v \in {Num(0), NegZero, NaNV, Num(420), Str("42"), Str(""), Null, Undef,
                          Bool(FALSE), Arr(<<>>), Obj(<<>>, <<>>)}}

TsInit ==
    /\ rules \in TsRuleSets
    /\ inputs \in TsInputs
    /\ pc = "start"
    /\ ruleIndex = 0
    /\ outcome = Pending
    /\ evaluated = {}
    /\ called = <<>>

TsSpec == TsInit /\ [][TsNext]_vars

-----------------------------------------------------------------------------
(* Properties of the TypeScript resolver, checked under TsSpec.            *)

\* the loop always ends with a return or a throw
TsLoopAlwaysReturns == ~(pc = "scan" /\ ruleIndex > Len(rules))

\* the evaluation e is of a unary branch that is not the last one, for a
\* single input, the parameter holding one pattern
unaryPatternBranch(e) ==
    /\ e.rule < Len(rules)
    /\ Len(inputs) = 1
    /\ rules[e.rule].arity = 1
    /\ theArg(e.rule).form = "pattern"

\* the node without its `!`
positive(node) == IF node.k = "Not" THEN node.arg ELSE node

isNegated(node) == node.k = "Not"

\* a literal the pattern extraction can build: a string, a number other
\* than NaN, a boolean, null or undefined
isLiteralNode(node) ==
    /\ node.k \in {"String", "Number", "Boolean", "Null", "Undefined"}
    /\ ~IsNaN(node)

withPattern(i, node) == [rules EXCEPT ![i] = Unary(ArgPat(theArg(i).argName, node))]

\* C17: negation flips a type pattern.  A branch whose pattern is !Name,
\* Name a built-in constructor, answers an input with: accepted exactly
\* when the same branch list with Name in place of !Name rejects it.
NegationFlipsType ==
    \A e \in evaluated :
        (/\ unaryPatternBranch(e)
         /\ isNegated(theArg(e.rule).pattern)
         /\ theArg(e.rule).pattern.arg.k = "Ctor"
         /\ isPrimitiveConstructor(theArg(e.rule).pattern.arg.name))
            => e.result = B(isMatch(inputs, withPattern(e.rule, theArg(e.rule).pattern.arg), e.rule) = "F")

wildcardRules == {i \in 1..Len(rules) : rules[i] = WildcardRule}

\* C19: the placement of the wildcard is validated.  A call with at least
\* one input on a RuleSet that holds more than one wildcard rule, or a
\* wildcard rule that is not the last rule, ends with a fault.
WildcardPlacementValidated ==
    (/\ pc = "done"
     /\ Len(inputs) >= 1
     /\ \/ Cardinality(wildcardRules) > 1
        \/ \E i \in wildcardRules : i # Len(rules))
        => outcome.kind = "fault"

-----------------------------------------------------------------------------
(* Calls the checks before the scan are about, under the resolver of       *)
(* src/lib/index.js: branch lists that are empty, that hold the wildcard   *)
(* rule anywhere and more than once, a wildcard with a default, a wildcard *)
(* with a second parameter and a rule without parameters; and the empty    *)
(* input tuple.                                                            *)

\* `_ => ...`, `(_ = null) => ...`, `(_ = 3) => ...`, `(_, y) => ...`,
\* `(x = 3) => ...`, `x => ...` and `() => ...`
ConfigRules ==
    {WildcardRule, Unary(ArgPat("_", Null)), Unary(ArgPat("_", Num(30))),
     toRule(<<ArgAny("_"), ArgAny("y")>>),
     Unary(ArgPat("x", Num(30))), Unary(ArgAny("x")), toRule(<<>>)}

ConfigRuleSets ==
    UNION {{rs : rs \in [1..n -> ConfigRules]} \cup {Append(rs, WildcardRule) : rs \in [1..n -> ConfigRules]} :
              n \in 0..MaxRules}

ConfigInputs == {<<>>, <<Num(30)>>, <<Num(420)>>, <<Null>>, <<Num(30), Num(420)>>}

ConfigInit ==
    /\ rules \in ConfigRuleSets
    /\ inputs \in ConfigInputs
    /\ pc = "start"
    /\ ruleIndex = 0
    /\ outcome = Pending
    /\ evaluated = {}
    /\ called = <<>>

ConfigSpec == ConfigInit /\ [][Next]_vars

-----------------------------------------------------------------------------
(* Properties of the checks before the scan, checked under ConfigSpec.     *)

\* a rule with a parameter named `_` that has a further parameter, or
\* whose parameter `_` has a default
malformedWildcard(rule) ==
    \E i \in 1..Len(rule.allReflectedArgs) :
        /\ rule.allReflectedArgs[i].argName = "_"
        /\ (rule.arity > 1 \/ rule.allReflectedArgs[i].form # "none")

\* C20: the shape of the wildcard rule is validated.  A rule with a
\* parameter `_` and further parameters, or whose parameter `_` has a
\* default, the default null included, is never applied as the fallback:
\* its body is never the one called, with no argument, after the scan.
WildcardShapeValidated ==
    \A n \in 1..Len(called) :
        ~(/\ malformedWildcard(rules[called[n].rule])
          /\ called[n].rule = indexOfWildcardRule(rules)
          /\ called[n].args = <<>>
          /\ Len(inputs) >= 1)

-----------------------------------------------------------------------------
(* Rules without parameters, under the TypeScript resolver (TsSpec).       *)

\* the rules `() => ...` that are not the last rule of the RuleSet: the last
\* one is the default of src/src/index.ts:335-337
zeroArityRules == {i \in 1..Len(rules) - 1 : rules[i].arity = 0}

\* C21: a rule without parameters is reported at once.  A call with at
\* least one input on a RuleSet that holds a rule `() => ...` before its
\* last rule ends with a fault and with no body called, also when a rule
\* declared before the zero-arity rule accepts the inputs.
ZeroArityRejected ==
    (pc = "done" /\ Len(inputs) >= 1 /\ zeroArityRules # {})
        => outcome.kind = "fault" /\ called = <<>>

-----------------------------------------------------------------------------
(* Matching on a property by naming the parameter after its key: unary     *)
(* calls whose rules name their parameter `age`, `done` or `foo`, against  *)
(* mappings that hold such a key, alone or among others.                   *)

KeyArgs ==
    {ArgPat("age", Ctor("Number")), ArgPat("age", Num(210)), ArgPat("age", Ctor("String")),
     ArgPat("done", Bool(TRUE)), ArgPat("done", Guard("lt42")),
     ArgPat("foo", Obj(<<"bar">>, <<Num(420)>>)),
     ArgPat("obj", Obj(<<"done">>, <<Bool(FALSE)>>))}

KeyRules == {Unary(a) : a \in KeyArgs}

KeyInputs ==
    {<<v>> : v \in {Obj(<<"age">>, <<Num(210)>>),
                    Obj(<<"age">>, <<Str("x")>>),
                    Obj(<<"n", "age">>, <<Num(210), Str("x")>>),
                    Obj(<<"age", "n">>, <<Str("x"), Num(210)>>),
                    Obj(<<"done">>, <<Bool(TRUE)>>),
                    Obj(<<"done">>, <<Bool(FALSE)>>),
                    Obj(<<"done", "ok">>, <<Bool(FALSE), Bool(TRUE)>>),
                    Obj(<<"done", "error">>, <<Bool(FALSE), ErrV("Error")>>),
                    Obj(<<"foo">>, <<Obj(<<"bar">>, <<Num(420)>>)>>),
                    Obj(<<"other">>, <<Num(210)>>)}}

KeyInit == InitWith(KeyRules, KeyInputs)

KeySpec == KeyInit /\ [][Next]_vars

-----------------------------------------------------------------------------
(* Properties of key-name matching, checked under KeySpec.                 *)

\* the input is a mapping with a key named like the parameter of rule i
inputHasKeyOf(i) == theInput.k = "Object" /\ KeyPos(theInput, theArg(i).argName) # 0

\* what the pattern of rule i answers for the value stored under the key
\* named like its parameter, that value taken as the input of the call
patternOnProperty(i) ==
    isPatternAcceptable(rules, i, 1, ObjGet(theInput, theArg(i).argName), theArg(i))

\* C22: key-name destructuring.  A rule with a pattern, no other rule but
\* the wildcard being there, answers a mapping that has a key named like
\* the rule's parameter with what its pattern answers for the value stored
\* under that key: (age = Number) accepts { age: 21 }, and (done = true)
\* accepts a mapping exactly when its `done` is true.
KeyNameDestructuring ==
    \A e \in evaluated :
        (theArg(e.rule).form = "pattern" /\ nonWildcardRules = {e.rule} /\ inputHasKeyOf(e.rule))
            => e.result = patternOnProperty(e.rule)

-----------------------------------------------------------------------------
(* Calls on RuleSets that mix rules of one and of two parameters.  The     *)
(* rules of two parameters hold at the second one the Array, Object or     *)
(* Number constructor, an array shape or a number, and all but one leave   *)
(* the first parameter without a pattern; the inputs are pairs and single  *)
(* values.                                                                 *)

MixedRules ==
    {toRule(<<ArgAny("a"), ArgPat("xs", Ctor("Array"))>>),
     toRule(<<ArgAny("a"), ArgPat("xs", Arr(<<Num(10)>>))>>),
     toRule(<<ArgAny("a"), ArgPat("xs", Arr(<<>>))>>),
     toRule(<<ArgAny("a"), ArgPat("o", Ctor("Object"))>>),
     toRule(<<ArgAny("a"), ArgPat("n", Ctor("Number"))>>),
     toRule(<<ArgAny("a"), ArgPat("n", Num(30))>>),
     toRule(<<ArgPat("a", Num(420)), ArgPat("n", Num(30))>>),
     Unary(ArgPat("n", Num(30))),
     Unary(ArgPat("n", Ctor("Number"))),
     Unary(ArgPat("xs", Ctor("Array"))),
     Unary(ArgPat("xs", Arr(<<Num(10)>>)))}

MixedInputs ==
    {<<Num(10), Arr(<<>>)>>, <<Num(10), Arr(<<Num(10)>>)>>, <<Num(10), Arr(<<Num(10), Num(20)>>)>>,
     <<Num(10), Obj(<<"x">>, <<Num(10)>>)>>, <<Num(10), Num(30)>>, <<Num(10), Num(420)>>,
     <<Num(10), Str("ab")>>,
     <<Arr(<<Num(10)>>)>>, <<Arr(<<>>)>>, <<Num(30)>>, <<Num(420)>>}

MixedInit == InitWith(MixedRules, MixedInputs)

MixedSpec == MixedInit /\ [][Next]_vars

-----------------------------------------------------------------------------
(* Properties checked under MixedSpec.  The position a rule of the model   *)
(* constrains is its last one.                                             *)

\* the pattern argument of rule i
lastArg(i) == rules[i].allReflectedArgs[rules[i].arity]

\* the non-wildcard rules that hold, at position p, an array of at most as
\* many elements as the input at p has
arrayShapeRulesWithin(p) ==
    {j \in nonWildcardRules :
        /\ p <= rules[j].arity
        /\ rules[j].allReflectedArgs[p].form = "pattern"
        /\ rules[j].allReflectedArgs[p].pattern.k = "Array"
        /\ Len(rules[j].allReflectedArgs[p].pattern.els) <= Len(inputs[p].els)}

\* C23: the generic Array pattern defers to destructuring rules.  A rule at
\* index i whose pattern at position p is the Array constructor answers a
\* sequence of L elements at p with: accepted when no non-wildcard rule
\* holds at p an array shape of at most L elements, or when one declared
\* before i does; rejected otherwise.  It answers every input that is not a
\* sequence with: rejected.
GenericArrayDefers ==
    \A e \in evaluated :
        LET p == rules[e.rule].arity
        IN lastArg(e.rule).pattern = Ctor("Array")
              => e.result = B(/\ inputs[p].k = "Array"
                              /\ \/ arrayShapeRulesWithin(p) = {}
                                 \/ \E j \in arrayShapeRulesWithin(p) : j < e.rule)

-----------------------------------------------------------------------------
(* Resolving again and again on one RuleSet.  A matcher is a function that *)
(* applies the same rules to the inputs of each call; `called` keeps the   *)
(* bodies called by the calls made so far, everything else starts afresh   *)
(* with each call.                                                         *)

MaxCalls == 3

RepeatRules ==
    {Unary(ArgPat("o", Obj(<<"x">>, <<Num(10)>>))),
     Unary(ArgPat("o", Obj(<<"x", "y">>, <<Num(10), Num(20)>>))),
     Unary(ArgPat("o", Ctor("Object")))}

RepeatInputs ==
    {<<Obj(<<"x">>, <<Num(10)>>)>>, <<Obj(<<"x", "y">>, <<Num(10), Num(20)>>)>>}

RepeatInit == InitWith(RepeatRules, RepeatInputs)

\* the matcher is called again, with the same or with other inputs
CallAgain ==
    /\ pc = "done"
    /\ Len(called) < MaxCalls
    /\ inputs' \in RepeatInputs
    /\ pc' = "start"
    /\ ruleIndex' = 0
    /\ outcome' = Pending
    /\ evaluated' = {}
    /\ UNCHANGED <<rules, called>>

RepeatNext == Next \/ CallAgain

RepeatSpec == RepeatInit /\ [][RepeatNext]_vars

-----------------------------------------------------------------------------
(* Properties of repeated resolution, checked under RepeatSpec.            *)

\* what the scan of rs for ins ends with, as a function of rs and ins
\* alone: the first candidate rule the engine does not reject decides
Selected(rs, ins) ==
    LET decisive == {i \in 1..Len(rs) :
                        /\ isCandidate(rs, ins, i)
                        /\ allInputsSatisfyRule(rs[i], ins, i, rs) # "F"}
    IN IF decisive # {}
       THEN IF allInputsSatisfyRule(rs[Min(decisive)], ins, Min(decisive), rs) = "T"
            THEN BodyRan(Min(decisive), ins)
            ELSE Fault(Min(decisive), allInputsSatisfyRule(rs[Min(decisive)], ins, Min(decisive), rs))
       ELSE IF wildcardExists(rs) THEN BodyRan(indexOfWildcardRule(rs), <<>>)
       ELSE NoMatch

-----------------------------------------------------------------------------
(* Properties of the engine's answers, checked under Spec and MixedSpec.   *)

\* the rule holds a guard that answers the input at its position with a
\* non-boolean, alone or as an alternative of a union
holdsNonBooleanGuard(rule) ==
    \E p \in 1..Min({rule.arity, Len(inputs)}) :
        LET arg == rule.allReflectedArgs[p]
        IN \/ guardAnsweredNonBoolean(arg, inputs[p])
           \/ /\ arg.form = "subPatterns"
              /\ \E a \in 1..Len(arg.subPatterns) :
                    guardAnsweredNonBoolean(ArgPat(arg.argName, arg.subPatterns[a]), inputs[p])

\* C25: acceptance is total.  Whatever the RuleSet and the inputs, null and
\* undefined among them, the engine answers a rule with accepted or
\* rejected; the one fault it can end with is that of a guard which
\* answered with a non-boolean.
AcceptanceIsTotal ==
    \A e \in evaluated :
        \/ e.result \in {"T", "F"}
        \/ e.result = "Invariant" /\ holdsNonBooleanGuard(rules[e.rule])

\* rule i is the wildcard rule or takes as many parameters as there are
\* inputs
ofCallArity(i) == ruleIsWildcard(rules[i]) \/ rules[i].arity = Len(inputs)

\* the RuleSet without its non-wildcard rules of another arity, and the index
\* rule i has in it
withoutOtherArities == SelectSeq(rules, LAMBDA rule : ruleIsWildcard(rule) \/ rule.arity = Len(inputs))

indexWithoutOtherArities(i) == Cardinality({j \in 1..i : ofCallArity(j)})

\* C26: rules of another arity are inert.  A call ends as the call with the
\* same inputs on the RuleSet without its non-wildcard rules of another
\* arity ends: with the body of the same rule, with no match, or with a
\* fault.
OtherAritiesAreInert ==
    pc = "done" =>
        /\ outcome.kind = Selected(withoutOtherArities, inputs).kind
        /\ outcome.kind = "body" =>
              Selected(withoutOtherArities, inputs).rule = indexWithoutOtherArities(outcome.rule)

\* every position of rule i other than p accepts its input
otherPositionsAccept(i, p) ==
    \A q \in 1..Len(inputs) :
        q # p => positionSatisfied(rules[i], inputs[q], q, i, rules) = "T"

\* C27: literal preemption never loses a match.  When a rule with Number
\* (String) at position p was rejected for an integer (string) input at p
\* that some non-wildcard rule holds as a literal at p, its other positions
\* accepting their inputs, the call ends with the body of a non-wildcard
\* rule that holds that literal at p; not with the wildcard's body, with no
\* match or with a fault.
LiteralPreemptionKeepsMatch ==
    pc = "done" =>
        \A e \in evaluated : \A p \in 1..Len(inputs) :
            (/\ e.result = "F"
             /\ genericAt(rules[e.rule], p, inputs[p])
             /\ otherPositionsAccept(e.rule, p)
             /\ \E j \in 1..Len(rules) : literalAt(rules[j], p, inputs[p]))
                => /\ outcome.kind = "body"
                   /\ literalAt(rules[outcome.rule], p, inputs[p])

-----------------------------------------------------------------------------
(* Shapes and the generic container patterns alone: unary calls whose      *)
(* rules hold object shapes, array shapes, the empty shapes and the Object *)
(* and Array constructors, against mappings and sequences.                 *)

FitArgs ==
    {ArgPat("o", Obj(<<"x">>, <<Num(10)>>)),
     ArgPat("o", Obj(<<"x", "y">>, <<Num(10), Num(20)>>)),
     ArgPat("o", Obj(<<>>, <<>>)),
     ArgPat("o", Ctor("Object")),
     ArgPat("o", Arr(<<>>)),
     ArgPat("o", Arr(<<Num(10)>>)),
     ArgPat("o", Arr(<<Num(10), Num(30)>>)),
     ArgPat("o", Ctor("Array"))}

FitRules == {Unary(a) : a \in FitArgs}

FitInputs ==
    {<<v>> : v \in {Obj(<<>>, <<>>),
                    Obj(<<"x">>, <<Num(10)>>),
                    Obj(<<"x">>, <<Num(20)>>),
                    Obj(<<"x", "y">>, <<Num(10), Num(20)>>),
                    Obj(<<"x", "y">>, <<Num(10), Num(30)>>),
                    Arr(<<>>), Arr(<<Num(10)>>), Arr(<<Num(20)>>), Arr(<<Num(10), Num(20)>>)}}

FitInit == InitWith(FitRules, FitInputs)

FitSpec == FitInit /\ [][Next]_vars

-----------------------------------------------------------------------------
(* Properties checked under FitSpec.                                       *)

\* rule i holds an object shape whose declared keys all hold, in the input,
\* the declared value
shapeFitsInput(i) ==
    /\ ~ruleIsWildcard(rules[i])
    /\ rules[i].arity = Len(inputs)
    /\ theArg(i).form = "pattern"
    /\ theArg(i).pattern.k = "Object"
    /\ Len(theArg(i).pattern.keys) <= Len(theInput.keys)
    /\ declaredKeysEqual(theArg(i).pattern, theInput)

\* C28: object best fit never loses a match.  When the input is a mapping
\* and some non-wildcard rule holds an object shape of at least one key
\* that fits it (no more keys than the input, every declared key holding
\* the declared value), the call ends with the body of a rule whose object
\* shape fits the input; not with the generic Object rule's body, the
\* wildcard's body or no match.
BestFitKeepsMatch ==
    (/\ pc = "done"
     /\ theInput.k = "Object"
     /\ \E i \in 1..Len(rules) : shapeFitsInput(i) /\ Len(theArg(i).pattern.keys) >= 1)
        => outcome.kind = "body" /\ shapeFitsInput(outcome.rule)

\* rule i holds the generic constructor of the input's kind
genericContainerRule(i) ==
    /\ theArg(i).form = "pattern"
    /\ \/ theInput.k = "Array" /\ theArg(i).pattern = Ctor("Array")
       \/ theInput.k = "Object" /\ theArg(i).pattern = Ctor("Object")

\* C29: a generic container rule is a reliable fallback.  When the input is
\* a sequence (a mapping) and some rule holds the Array (the Object)
\* constructor, the call ends with the body of a rule that is not the
\* wildcard rule, a shape rule's or the generic rule's, wherever the generic
\* rule stands among the shape rules, the rules [] and {} included.
GenericContainerIsFallback ==
    (pc = "done" /\ \E i \in 1..Len(rules) : genericContainerRule(i))
        => outcome.kind = "body" /\ ~ruleIsWildcard(rules[outcome.rule])

-----------------------------------------------------------------------------
(* Custom types against inputs that are no instances: unary calls whose    *)
(* rules name the class A or the class B, against the instances of         *)
(* class A {}, class B extends A {} and class C extends B {}, and against  *)
(* strings, among them the texts 'A' and 'B', a number, a boolean, a plain *)
(* mapping, null and undefined.                                            *)

CustomArgs == {ArgCustom("v", "A"), ArgCustom("v", "B"), ArgPat("v", Ctor("String"))}

CustomRules == {Unary(a) : a \in CustomArgs}

CustomInputs ==
    {<<v>> : v \in {Str("A"), Str("B"), Str("foo"), Num(420), Bool(TRUE),
                    Obj(<<"a">>, <<Num(10)>>), Null, Undef,
                    Inst("A", ""), Inst("B", "A"), Inst("C", "B")}}

CustomInit == InitWith(CustomRules, CustomInputs)

CustomSpec == CustomInit /\ [][Next]_vars

-----------------------------------------------------------------------------
(* Properties checked under CustomSpec.                                    *)

\* the input is an instance of a class whose own name, or the name of the
\* class it extends, is one of the names
instanceOfOneOf(input, names) ==
    isInstance(input) /\ (input.cls \in names \/ input.parent \in names)

\* C30: a custom type rejects whatever is not an instance of it.  A rule
\* whose pattern is the custom type `name` answers rejected for every input
\* that is not an instance of a class named `name` or extending a class
\* named `name`: for the string whose text is `name`, for a number, a
\* boolean and a plain mapping.  (The inputs null and undefined, for which
\* the evaluation throws, are set aside.)
CustomTypeRejectsOthers ==
    \A e \in evaluated :
        (/\ theArg(e.rule).form = "pattern"
         /\ theArg(e.rule).hasCTN
         /\ theInput.k \notin {"Null", "Undefined"}
         /\ ~instanceOfOneOf(theInput, customNames(theArg(e.rule))))
            => e.result = "F"

=============================================================================
